---- MODULE Spec2Model ----
(***************************************************************************)
(* Multi-emulator runner (src/main.py): main() clones the base AVD once    *)
(* per instance, reserves one console port per instance, starts one        *)
(* instance_worker thread per (name, port) under a counting semaphore and  *)
(* joins them.  Each worker launches its emulator, polls adb until its     *)
(* serial is listed, polls getprop until sys.boot_completed is "1", then   *)
(* drives the CPI link / install / launch sequence.                        *)
(***************************************************************************)
EXTENDS Integers, Sequences, FiniteSets, TLC

\* ------------------------------------------------------------ bounds
\* Largest number of instances typed at the prompt (main.py:208).
MaxTotal == 3
\* BOOT_TIMEOUT in model clock units (420 s in main.py:25; the poll sleep stays 2).
ClockBound == 3
\* Largest timeout handed to a readiness phase that is checked on its own.
MaxTimeout == 7
\* Largest run whose enumerations are recorded.
MaxEnumTotal == 2
\* Ports at the bottom of the range that may each be live or not when the
\* reservation is checked on its own.
MaxBusy == 4

\* ------------------------------------------------------------ program constants
CONCURRENT_LIMIT == 2
KEEP_EMULATORS == TRUE
BOOT_TIMEOUT == ClockBound
PORT_FIRST == 5554
PORT_STOP == 5684
PORT_STEP == 2
POLL_SLEEP == 2

Workers == 1..MaxTotal

\* No port: find_free_emulator_port raised RuntimeError.
NoPort == 0

VARIABLES
  pc,              \* main(): "clone","snapshot","reserve","start","join","finish","done","error"
  total,           \* main(): the run size
  cloned,          \* main(): how many names of avd_names fresh_clone_avd has handled
  err,             \* main(): the exception that ended main(), or "none"
  adb,             \* environment: what `adb devices` would list, <<serial, state>> pairs
  existing,        \* main(): the snapshot taken at line 224
  reserved_ports,  \* main(): the list built at 225-228
  started,         \* main(): threads started by the loop at 234-241
  joined,          \* main(): threads joined by the loop at 244-245
  sem,             \* the semaphore's counter
  timeout,         \* the timeout handed to wait_for_serial / wait_for_boot_complete
  wpc,             \* per worker: where instance_worker stands
  acquired,        \* per worker: the local flag of instance_worker
  launched,        \* per worker: proc_holder has 'proc'
  elapsed,         \* per worker: time.time() - start of the running phase
  exc,             \* per worker: the exception caught at line 199, or "none"
  released,        \* per worker: how many times it called semaphore.release()
  serialLog,       \* history: the snapshots wait_for_serial polled
  bootLog,         \* history: the answers wait_for_boot_complete polled
  payloadLog,      \* history, per worker: the commands open_cpi_and_install ran
  enumLog,         \* history: the calls of list_adb_devices and what they returned
  keep,            \* the retention policy, KEEP_EMULATORS
  handled,         \* main(): entries of procs_info the loop at 252 has handled
  retention        \* per worker: what the loop at 252 did about its process

vars == <<pc, total, cloned, err, adb, existing, reserved_ports, started, joined,
          sem, timeout, wpc, acquired, launched, elapsed, exc, released,
          serialLog, bootLog, payloadLog, enumLog, keep, handled, retention>>

mainVars == <<pc, total, cloned, err, existing, reserved_ports, started, joined>>
workerVars == <<wpc, acquired, launched, elapsed, exc, released>>
logVars == <<serialLog, bootLog, payloadLog, enumLog>>
retentionVars == <<keep, handled, retention>>

\* ------------------------------------------------------------ helpers
Min2(a, b) == IF a < b THEN a ELSE b

\* f"emulator-{port}": the prefix and the decimal port, injective in the port.
Serial(port) == <<"emulator", port>>

\* f"{BASE_AVD}_copy{i+1}" for i in range(total), indexed here from 1.
AvdName(i) == <<"MyAVD3_copy", i>>

avd_names == [i \in 1..total |-> AvdName(i)]

\* range(5554, 5684, 2)
PortRange == {p \in PORT_FIRST..(PORT_STOP - 1) : (p - PORT_FIRST) % PORT_STEP = 0}

\* Mutant: the try/except at 42-45 left out of the picture: the listing parsed
\* whether or not running adb worked.
list_adb_devices_unguarded(ok) == {e[1] : e \in {x \in adb : x[2] = "device"}}

\* list_adb_devices(): the serials whose state is "device"; the empty set when
\* running adb raised.
list_adb_devices(ok) ==
  IF ok THEN {e[1] : e \in {x \in adb : x[2] = "device"}} ELSE {}

\* find_free_emulator_port: the ascending scan, NoPort where the code raises.
RECURSIVE ScanPorts(_, _)
ScanPorts(port, occupied_serials) ==
  IF port >= PORT_STOP THEN NoPort
  ELSE IF Serial(port) \notin occupied_serials THEN port
  ELSE ScanPorts(port + PORT_STEP, occupied_serials)

\* Mutant: the first port of the range handed out when the scan finds none.
find_free_or_first(occupied_serials) ==
  IF ScanPorts(PORT_FIRST, occupied_serials) = NoPort
    THEN PORT_FIRST
    ELSE ScanPorts(PORT_FIRST, occupied_serials)

\* Mutant: the scan started one port above the bottom of the range.
find_free_above_first(occupied_serials) ==
  ScanPorts(PORT_FIRST + PORT_STEP, occupied_serials)

find_free_emulator_port(occupied_serials) == ScanPorts(PORT_FIRST, occupied_serials)

\* Mutant: the ports reserved in this run left out of the occupied set.
ReservedSerialsForgotten(ports) == {}

\* {f"emulator-{p}" for p in reserved_ports}
ReservedSerials(ports) == {Serial(ports[i]) : i \in 1..Len(ports)}

\* zip(avd_names, reserved_ports): as long as the shorter of the two.
Plan == [i \in 1..Min2(total, Len(reserved_ports)) |-> <<avd_names[i], reserved_ports[i]>>]

\* The port handed to worker w as a thread argument.
WPort(w) == reserved_ports[w]

\* ------------------------------------------------------------ initial adb listings
Live(ports) == {<<Serial(p), "device">> : p \in ports}

LastPort == PORT_STOP - PORT_STEP

\* Listings the run may start under: two emulators at the low end of the range
\* with an offline one between them, a range that is full, and a range that is
\* full but for its last port.
Listings ==
  { Live({PORT_FIRST, PORT_FIRST + 2 * PORT_STEP})
      \cup {<<Serial(PORT_FIRST + PORT_STEP), "offline">>},
    Live(PortRange),
    Live(PortRange \ {LastPort}) }

\* ------------------------------------------------------------ main()
\* Mutant: the clone loop left after its first name.
AfterCloneFirstOnly(n) == "snapshot"

\* The for loop at 220-221 ends after the last name.
AfterClone(n) == IF n = total THEN "snapshot" ELSE "clone"

\* The for loop at 226-228 ends after the last name.
AfterReserve(n) == IF n = total THEN "start" ELSE "reserve"

\* The for loop at 234-241 ends after the last pair.
AfterStart(n) == IF n = Len(Plan) THEN "join" ELSE "start"

\* Mutant: main() leaving with an error once a thread it joined had failed.
AfterJoinFailFast(n) ==
  IF exc[n] # "none" THEN "error" ELSE IF n = started THEN "finish" ELSE "join"

\* The for loop at 244-245 ends after the last thread.
AfterJoin(n) == IF n = started THEN "finish" ELSE "join"

\* Mutant: the exception of fresh_clone_avd caught in the loop, reported, and the
\* loop carried on with the next name.
CloneLoggedAndContinued(ok) ==
  /\ pc = "clone"
  /\ cloned' = cloned + 1
  /\ pc' = AfterClone(cloned + 1)
  /\ err' = IF ok THEN err ELSE "CloneError"
  /\ UNCHANGED <<total, adb, existing, reserved_ports, started, joined, sem, timeout>>
  /\ UNCHANGED workerVars
  /\ UNCHANGED retentionVars
  /\ UNCHANGED logVars

\* fresh_clone_avd(name) for the next name; it raises when the base AVD is missing
\* or the copy fails, and nothing in main() catches that.
Clone(ok) ==
  /\ pc = "clone"
  /\ IF ok
       THEN /\ cloned' = cloned + 1
            /\ pc' = AfterClone(cloned + 1)
            /\ err' = err
       ELSE /\ pc' = "error"
            /\ err' = "CloneError"
            /\ cloned' = cloned
  /\ UNCHANGED <<total, adb, existing, reserved_ports, started, joined, sem, timeout>>
  /\ UNCHANGED workerVars
  /\ UNCHANGED retentionVars
  /\ UNCHANGED logVars

\* existing = list_adb_devices()
Snapshot(ok) ==
  /\ pc = "snapshot"
  /\ existing' = list_adb_devices(ok)
  /\ pc' = "reserve"
  /\ UNCHANGED <<total, cloned, err, adb, reserved_ports, started, joined, sem, timeout>>
  /\ UNCHANGED workerVars
  /\ UNCHANGED retentionVars

\* One iteration of the loop at 226-228; RuntimeError ends main().
Reserve ==
  /\ pc = "reserve"
  /\ LET port == find_free_emulator_port(existing \cup ReservedSerials(reserved_ports))
     IN IF port = NoPort
          THEN /\ pc' = "error"
               /\ err' = "RuntimeError"
               /\ reserved_ports' = reserved_ports
          ELSE /\ reserved_ports' = Append(reserved_ports, port)
               /\ pc' = AfterReserve(Len(reserved_ports) + 1)
               /\ err' = err
  /\ UNCHANGED <<total, cloned, adb, existing, started, joined, sem, timeout>>
  /\ UNCHANGED workerVars
  /\ UNCHANGED retentionVars
  /\ UNCHANGED logVars

\* One iteration of the loop at 234-241: t.start() for the next (name, port).
StartWorker ==
  /\ pc = "start"
  /\ started' = started + 1
  /\ wpc' = [wpc EXCEPT ![started + 1] = "acquire"]
  /\ pc' = AfterStart(started + 1)
  /\ UNCHANGED <<total, cloned, err, adb, existing, reserved_ports, joined, sem, timeout>>
  /\ UNCHANGED <<acquired, launched, elapsed, exc, released>>
  /\ UNCHANGED retentionVars
  /\ UNCHANGED logVars

\* One iteration of the loop at 244-245: t.join() returns once the thread ended.
Join ==
  /\ pc = "join"
  /\ wpc[joined + 1] = "done"
  /\ joined' = joined + 1
  /\ pc' = AfterJoin(joined + 1)
  /\ UNCHANGED <<total, cloned, err, adb, existing, reserved_ports, started, sem, timeout>>
  /\ UNCHANGED workerVars
  /\ UNCHANGED retentionVars
  /\ UNCHANGED logVars

\* Line 248: under KEEP_EMULATORS, or with nothing in procs_info, main() goes
\* straight to its last print; otherwise into the loop at 252.
AfterFinish(k, n) == IF k \/ n = 0 THEN "done" ELSE "terminate"

\* The loop at 252-263 ends after the last entry of procs_info.
AfterTerminate(n) == IF n = started THEN "done" ELSE "terminate"

\* Lines 247-251: the prints and the branch on KEEP_EMULATORS.
Finish ==
  /\ pc = "finish"
  /\ pc' = AfterFinish(keep, started)
  /\ UNCHANGED <<total, cloned, err, adb, existing, reserved_ports, started, joined, sem, timeout>>
  /\ UNCHANGED workerVars
  /\ UNCHANGED retentionVars
  /\ UNCHANGED logVars

\* What the loop at 252 did about one process: whether poll() found it running,
\* whether `adb emu kill` was run and what it did, whether proc.terminate() was
\* called.
NotHandled == [running |-> FALSE, asked |-> FALSE, raised |-> FALSE, code |-> 0, signal |-> FALSE]

\* Mutant: the except branch at 259 left empty.
FallsBackNever(res) == FALSE

\* Lines 255-263: the except branch, and with it proc.terminate(), is entered
\* only when run_cmd raised; check=False turns no exit code into an exception.
FallsBack(res) == res.raised

\* One iteration of the loop at 252-263 for the next entry of procs_info:
\* `running` is whether proc.poll() returned None, `res` what run_cmd did with
\* `adb -s emulator-<port> emu kill`.  An exception of proc.terminate() is dropped.
Terminate(running, res) ==
  /\ pc = "terminate"
  /\ LET i == handled + 1
     IN /\ retention' =
             IF ~launched[i]
               THEN retention
               ELSE IF ~running
                 THEN [retention EXCEPT ![i].running = FALSE]
                 ELSE [retention EXCEPT ![i] =
                         [running |-> TRUE, asked |-> TRUE, raised |-> res.raised,
                          code |-> res.code, signal |-> FallsBack(res)]]
        /\ handled' = i
        /\ pc' = AfterTerminate(i)
  /\ UNCHANGED <<total, cloned, err, adb, existing, reserved_ports, started, joined, sem, timeout>>
  /\ UNCHANGED workerVars
  /\ UNCHANGED keep
  /\ UNCHANGED logVars

\* ------------------------------------------------------------ instance_worker
\* What a command run through run_cmd can do: raise (adb cannot be executed), or
\* return with an exit code; check=False never turns a code into an exception.
\* A result is [raised, code, stdout]; `code` and `stdout` matter only when the
\* call returned.
ExitCodes == {0, 1}
Stdouts == {<<>>, <<"0", "\n">>, <<"1", "\n">>, <<"1">>}
RaisedResult == [raised |-> TRUE, code |-> 1, stdout |-> <<>>]
Returned(code, stdout) == [raised |-> FALSE, code |-> code, stdout |-> stdout]

\* stdout of `getprop sys.boot_completed` as a sequence of characters.
BootAnswers == {RaisedResult} \cup {Returned(0, s) : s \in Stdouts}
InstallResults == {RaisedResult} \cup {Returned(c, <<>>) : c \in ExitCodes}
\* A command run without capture_output: nothing of it is read.
CommandResults == {RaisedResult} \cup {Returned(c, <<>>) : c \in ExitCodes}

IsSpace(c) == c \in {" ", "\n", "\t", "\r"}

\* str.strip()
RECURSIVE StripLeft(_)
StripLeft(s) == IF s # <<>> /\ IsSpace(Head(s)) THEN StripLeft(Tail(s)) ELSE s
RECURSIVE StripRight(_)
StripRight(s) ==
  IF s # <<>> /\ IsSpace(s[Len(s)]) THEN StripRight(SubSeq(s, 1, Len(s) - 1)) ELSE s
Strip(s) == StripRight(StripLeft(s))

\* Mutant: any output taken for the boot signal.
BootCompletedOnAnyOutput(stdout) == stdout # <<>>

\* Line 150: r.stdout and r.stdout.strip() == "1"
BootCompleted(stdout) == stdout # <<>> /\ Strip(stdout) = <<"1">>

\* Mutant: <= for <, one more poll at the timeout itself.
StillWaitingInclusive(e, t) == e <= t

\* Mutant: the query made outside any try block, so that its exception leaves
\* wait_for_boot_complete.
BootPollOutcomeUncaught(answer) ==
  IF answer.raised THEN "raise"
  ELSE IF BootCompleted(answer.stdout) THEN "return" ELSE "sleep"

\* Lines 148-155: what one iteration does with the query's result; an exception
\* is caught at line 153 and the loop sleeps as after any other non-result.
BootPollOutcome(answer) ==
  IF answer.raised THEN "sleep"
  ELSE IF BootCompleted(answer.stdout) THEN "return" ELSE "sleep"

\* Lines 136 and 147: while time.time() - start < timeout
StillWaiting(e, t) == e < t

\* Mutant: any non-empty snapshot taken for the serial.
FoundAnyDevice(serial, snapshot) == snapshot # {}

\* Line 138: serial in the snapshot this iteration just took.
Found(serial, snapshot) == serial \in snapshot

\* Mutant: acquire() that does not block.
CanAcquireNonBlocking(v) == TRUE

\* semaphore.acquire() returns only when the counter is positive.
CanAcquire(v) == v > 0

\* Mutant: a release in the except block on top of the one in finally.
ReleaseCountAlsoInExcept(acq, e) == IF acq THEN (IF e = "none" THEN 1 ELSE 2) ELSE 0

\* Mutant: the release at the end of the try block instead of in finally.
ReleaseCountOnSuccessOnly(acq, e) == IF acq /\ e = "none" THEN 1 ELSE 0

\* Mutant: the finally block left out, so that no permit is ever given back.
ReleaseCountNever(acq, e) == 0

\* Lines 202-203: the release in finally, guarded by the local flag.
ReleaseCount(acq, e) == IF acq THEN 1 ELSE 0

\* Mutant: the start time taken again in every iteration, so no time ever elapses.
SleptFromRestart(e, lag, t) == e

\* time.sleep(2) after an adb call that took `lag`; the clock is kept up to the
\* timeout, past which every value of it reads the same.
Slept(e, lag, t) == Min2(t, e + POLL_SLEEP + lag)

\* The except and finally blocks, and the end of the thread: e is the exception
\* caught at line 199, "none" when the try block ran to its end.
Exit(w, e) ==
  /\ wpc' = [wpc EXCEPT ![w] = "done"]
  /\ exc' = [exc EXCEPT ![w] = e]
  /\ sem' = sem + ReleaseCount(acquired[w], e)
  /\ released' = [released EXCEPT ![w] = @ + ReleaseCount(acquired[w], e)]
  /\ elapsed' = [elapsed EXCEPT ![w] = 0]
  /\ UNCHANGED <<acquired, launched>>

\* Mutant: an acquire that gives up when no permit is free, its result ignored.
AcquireOrProceed(w) ==
  /\ wpc[w] = "acquire"
  /\ sem' = IF CanAcquire(sem) THEN sem - 1 ELSE sem
  /\ acquired' = [acquired EXCEPT ![w] = CanAcquire(sem)]
  /\ wpc' = [wpc EXCEPT ![w] = "launch"]
  /\ UNCHANGED <<launched, elapsed, exc, released>>
  /\ UNCHANGED <<adb, timeout>>
  /\ UNCHANGED mainVars
  /\ UNCHANGED retentionVars
  /\ UNCHANGED logVars

\* semaphore.acquire(); acquired = True
Acquire(w) ==
  /\ wpc[w] = "acquire"
  /\ CanAcquire(sem)
  /\ sem' = sem - 1
  /\ acquired' = [acquired EXCEPT ![w] = TRUE]
  /\ wpc' = [wpc EXCEPT ![w] = "launch"]
  /\ UNCHANGED <<launched, elapsed, exc, released>>
  /\ UNCHANGED <<adb, timeout>>
  /\ UNCHANGED mainVars
  /\ UNCHANGED retentionVars
  /\ UNCHANGED logVars

\* start_emulator_detached: open the log file and Popen the emulator; either may
\* raise.  On return proc_holder is filled and wait_for_serial takes its start time.
Launch(w, ok) ==
  /\ wpc[w] = "launch"
  /\ IF ok
       THEN /\ launched' = [launched EXCEPT ![w] = TRUE]
            /\ wpc' = [wpc EXCEPT ![w] = "discover"]
            /\ elapsed' = [elapsed EXCEPT ![w] = 0]
            /\ UNCHANGED <<acquired, exc, released, sem>>
       ELSE Exit(w, "LaunchError")
  /\ UNCHANGED <<adb, timeout>>
  /\ UNCHANGED mainVars
  /\ UNCHANGED retentionVars
  /\ UNCHANGED logVars

\* One iteration of the loop of wait_for_serial: take a snapshot, return True when
\* the serial is in it, sleep otherwise.
PollSerial(w, ok, lag) ==
  /\ wpc[w] = "discover"
  /\ StillWaiting(elapsed[w], timeout)
  /\ LET fresh == list_adb_devices(ok)
     IN IF Found(Serial(WPort(w)), fresh)
          THEN /\ wpc' = [wpc EXCEPT ![w] = "boot"]
               /\ elapsed' = [elapsed EXCEPT ![w] = 0]
          ELSE /\ wpc' = wpc
               /\ elapsed' = [elapsed EXCEPT ![w] = Slept(@, lag, timeout)]
  /\ UNCHANGED <<acquired, launched, exc, released, sem>>
  /\ UNCHANGED <<adb, timeout>>
  /\ UNCHANGED mainVars
  /\ UNCHANGED retentionVars

\* Line 141: the loop of wait_for_serial ended; TimeoutError reaches line 199.
TimeoutSerial(w) ==
  /\ wpc[w] = "discover"
  /\ ~StillWaiting(elapsed[w], timeout)
  /\ Exit(w, "DiscoveryTimeout")
  /\ UNCHANGED <<adb, timeout>>
  /\ UNCHANGED mainVars
  /\ UNCHANGED retentionVars

\* One iteration of the loop of wait_for_boot_complete: `answer` is what run_cmd
\* did, an exception or the stdout it captured.
PollBoot(w, answer, lag) ==
  /\ wpc[w] = "boot"
  /\ StillWaiting(elapsed[w], timeout)
  /\ CASE BootPollOutcome(answer) = "return" ->
            /\ wpc' = [wpc EXCEPT ![w] = "open"]
            /\ elapsed' = [elapsed EXCEPT ![w] = 0]
            /\ UNCHANGED <<acquired, launched, exc, released, sem>>
       [] BootPollOutcome(answer) = "sleep" ->
            /\ wpc' = wpc
            /\ elapsed' = [elapsed EXCEPT ![w] = Slept(@, lag, timeout)]
            /\ UNCHANGED <<acquired, launched, exc, released, sem>>
       [] OTHER ->
            \* an exception that left the function would reach line 199
            Exit(w, "QueryError")
  /\ UNCHANGED <<adb, timeout>>
  /\ UNCHANGED mainVars
  /\ UNCHANGED retentionVars

\* Mutant: a boot wait that ran out sends the worker back to its discovery wait.
TimeoutBootRetry(w) ==
  /\ wpc[w] = "boot"
  /\ ~StillWaiting(elapsed[w], timeout)
  /\ wpc' = [wpc EXCEPT ![w] = "discover"]
  /\ elapsed' = [elapsed EXCEPT ![w] = 0]
  /\ UNCHANGED <<acquired, launched, exc, released, sem>>
  /\ UNCHANGED <<adb, timeout>>
  /\ UNCHANGED mainVars
  /\ UNCHANGED retentionVars

\* Line 156: the loop of wait_for_boot_complete ended.
TimeoutBoot(w) ==
  /\ wpc[w] = "boot"
  /\ ~StillWaiting(elapsed[w], timeout)
  /\ Exit(w, "BootTimeout")
  /\ UNCHANGED <<adb, timeout>>
  /\ UNCHANGED mainVars
  /\ UNCHANGED retentionVars

\* Lines 162-166: the VIEW intent through run_cmd (its result is dropped), sleep 30.
OpenLink(w, res) ==
  /\ wpc[w] = "open"
  /\ IF ~res.raised
       THEN /\ wpc' = [wpc EXCEPT ![w] = "install"]
            /\ UNCHANGED <<acquired, launched, elapsed, exc, released, sem>>
       ELSE Exit(w, "PayloadError")
  /\ UNCHANGED <<adb, timeout>>
  /\ UNCHANGED mainVars
  /\ UNCHANGED retentionVars

\* Lines 168-171: adb install through run_cmd, its output printed, sleep 10.
Install(w, res) ==
  /\ wpc[w] = "install"
  /\ IF ~res.raised
       THEN /\ wpc' = [wpc EXCEPT ![w] = "monkey"]
            /\ UNCHANGED <<acquired, launched, elapsed, exc, released, sem>>
       ELSE Exit(w, "PayloadError")
  /\ UNCHANGED <<adb, timeout>>
  /\ UNCHANGED mainVars
  /\ UNCHANGED retentionVars

\* Lines 173-175: the monkey launch through run_cmd (its result is dropped).
Monkey(w, res) ==
  /\ wpc[w] = "monkey"
  /\ IF ~res.raised
       THEN /\ wpc' = [wpc EXCEPT ![w] = "hold"]
            /\ UNCHANGED <<acquired, launched, elapsed, exc, released, sem>>
       ELSE Exit(w, "PayloadError")
  /\ UNCHANGED <<adb, timeout>>
  /\ UNCHANGED mainVars
  /\ UNCHANGED retentionVars

\* Lines 176-177: sleep(run_time) returns, the try block ends, finally runs.
Hold(w) ==
  /\ wpc[w] = "hold"
  /\ Exit(w, "none")
  /\ UNCHANGED <<adb, timeout>>
  /\ UNCHANGED mainVars
  /\ UNCHANGED retentionVars

\* ------------------------------------------------------------ environment
\* The emulator a worker launched comes up: adb lists its serial as a device.
\* (Only wait_for_serial of that worker reads the entry.)
Appear(w) ==
  /\ wpc[w] = "discover"
  /\ launched[w]
  /\ Serial(WPort(w)) \notin list_adb_devices(TRUE)
  /\ adb' = {x \in adb : x[1] # Serial(WPort(w))} \cup {<<Serial(WPort(w)), "device">>}
  /\ UNCHANGED timeout
  /\ UNCHANGED <<sem>>
  /\ UNCHANGED mainVars
  /\ UNCHANGED retentionVars
  /\ UNCHANGED workerVars
  /\ UNCHANGED logVars

\* ------------------------------------------------------------ specifications
\* Time an adb call may add to a poll iteration, on top of the sleep.
Lags == {0, 1}

NoWorker(v) == [w \in Workers |-> v]

Init ==
  /\ pc = "clone"
  /\ total \in 1..MaxTotal
  /\ cloned = 0
  /\ err = "none"
  /\ adb \in Listings
  /\ existing = {}
  /\ reserved_ports = <<>>
  /\ started = 0
  /\ joined = 0
  /\ sem = CONCURRENT_LIMIT
  /\ timeout = BOOT_TIMEOUT
  /\ wpc = NoWorker("idle")
  /\ acquired = NoWorker(FALSE)
  /\ launched = NoWorker(FALSE)
  /\ elapsed = NoWorker(0)
  /\ exc = NoWorker("none")
  /\ released = NoWorker(0)
  /\ serialLog = <<>>
  /\ bootLog = <<>>
  /\ payloadLog = NoWorker(<<>>)
  /\ enumLog = <<>>
  /\ keep = KEEP_EMULATORS
  /\ handled = 0
  /\ retention = NoWorker(NotHandled)

MainStep ==
  \/ \E ok \in BOOLEAN : Clone(ok)
  \/ \E ok \in BOOLEAN : Snapshot(ok) /\ UNCHANGED logVars
  \/ Reserve
  \/ StartWorker
  \/ Join
  \/ Finish

WorkerStep(w) ==
  \/ Acquire(w)
  \/ \E ok \in BOOLEAN : Launch(w, ok)
  \/ \E ok \in BOOLEAN, lag \in Lags : PollSerial(w, ok, lag) /\ UNCHANGED logVars
  \/ TimeoutSerial(w) /\ UNCHANGED logVars
  \/ \E answer \in BootAnswers, lag \in Lags : PollBoot(w, answer, lag) /\ UNCHANGED logVars
  \/ TimeoutBoot(w) /\ UNCHANGED logVars
  \/ \E res \in CommandResults : OpenLink(w, res) /\ UNCHANGED logVars
  \/ \E res \in InstallResults : Install(w, res) /\ UNCHANGED logVars
  \/ \E res \in CommandResults : Monkey(w, res) /\ UNCHANGED logVars
  \/ Hold(w) /\ UNCHANGED logVars

Next ==
  \/ MainStep
  \/ \E w \in Workers : WorkerStep(w)
  \/ \E w \in Workers : Appear(w)

Spec == Init /\ [][Next]_vars


\* Every thread the interpreter started keeps being scheduled, and every call a
\* step makes returns; whether an emulator ever comes up is left open.
Fairness ==
  /\ WF_vars(MainStep)
  /\ \A w \in Workers : WF_vars(WorkerStep(w))

FairSpec == Spec /\ Fairness

\* ------------------------------------------------------------ one readiness wait
\* The two readiness phases of a single worker, taken from the state in which
\* main() has started it and it has launched its emulator, for every timeout
\* up to MaxTimeout, with what each poll read kept in serialLog and bootLog.
WaitListings ==
  { {}, Live({PORT_FIRST}), {<<Serial(PORT_FIRST), "offline">>} }

WaitInit ==
  /\ pc = "join"
  /\ total = 1
  /\ cloned = 1
  /\ err = "none"
  /\ adb \in WaitListings
  /\ \E ok \in BOOLEAN : existing = list_adb_devices(ok)
  /\ reserved_ports = <<find_free_emulator_port(existing)>>
  /\ started = 1
  /\ joined = 0
  /\ sem = CONCURRENT_LIMIT - 1
  /\ timeout \in 1..MaxTimeout
  /\ wpc = [w \in Workers |-> IF w = 1 THEN "discover" ELSE "idle"]
  /\ acquired = [w \in Workers |-> w = 1]
  /\ launched = [w \in Workers |-> w = 1]
  /\ elapsed = NoWorker(0)
  /\ exc = NoWorker("none")
  /\ released = NoWorker(0)
  /\ serialLog = <<>>
  /\ bootLog = <<>>
  /\ payloadLog = NoWorker(<<>>)
  /\ enumLog = <<>>
  /\ keep = KEEP_EMULATORS
  /\ handled = 0
  /\ retention = NoWorker(NotHandled)

\* The steps of the worker's thread, each poll recorded.
WaitStep ==
  \/ \E ok \in BOOLEAN, lag \in Lags :
       /\ PollSerial(1, ok, lag)
       /\ serialLog' = Append(serialLog, list_adb_devices(ok))
       /\ UNCHANGED <<bootLog, payloadLog, enumLog>>
  \/ TimeoutSerial(1) /\ UNCHANGED logVars
  \/ \E answer \in BootAnswers, lag \in Lags :
       /\ PollBoot(1, answer, lag)
       /\ bootLog' = Append(bootLog, answer)
       /\ UNCHANGED <<serialLog, payloadLog, enumLog>>
  \/ TimeoutBoot(1) /\ UNCHANGED logVars

WaitNext == Appear(1) \/ WaitStep

WaitSpec == WaitInit /\ [][WaitNext]_vars

\* The worker's thread keeps being scheduled and each adb call returns.
FairWaitSpec == WaitSpec /\ WF_vars(WaitStep)

\* ------------------------------------------------------------ two payload sequences
\* A run of two instances from the state in which both workers hold a permit and
\* both their readiness waits have returned, with every command that
\* open_cpi_and_install runs, and what it did, kept in payloadLog.
Ran(cmd, res) == [cmd |-> cmd, res |-> res]

PayloadInit ==
  /\ pc = "join"
  /\ total = 2
  /\ cloned = 2
  /\ err = "none"
  /\ existing = {}
  /\ reserved_ports = <<PORT_FIRST, PORT_FIRST + PORT_STEP>>
  /\ adb = Live({PORT_FIRST, PORT_FIRST + PORT_STEP})
  /\ started = 2
  /\ joined = 0
  /\ sem = CONCURRENT_LIMIT - 2
  /\ timeout = BOOT_TIMEOUT
  /\ wpc = [w \in Workers |-> IF w <= 2 THEN "open" ELSE "idle"]
  /\ acquired = [w \in Workers |-> w <= 2]
  /\ launched = [w \in Workers |-> w <= 2]
  /\ elapsed = NoWorker(0)
  /\ exc = NoWorker("none")
  /\ released = NoWorker(0)
  /\ serialLog = <<>>
  /\ bootLog = <<>>
  /\ payloadLog = NoWorker(<<>>)
  /\ enumLog = <<>>
  /\ keep = KEEP_EMULATORS
  /\ handled = 0
  /\ retention = NoWorker(NotHandled)

\* The steps of open_cpi_and_install in worker w, each command recorded.
PayloadStep(w) ==
  \/ \E res \in CommandResults :
       /\ OpenLink(w, res)
       /\ payloadLog' = [payloadLog EXCEPT ![w] = Append(@, Ran("open", res))]
       /\ UNCHANGED <<serialLog, bootLog, enumLog>>
  \/ \E res \in InstallResults :
       /\ Install(w, res)
       /\ payloadLog' = [payloadLog EXCEPT ![w] = Append(@, Ran("install", res))]
       /\ UNCHANGED <<serialLog, bootLog, enumLog>>
  \/ \E res \in CommandResults :
       /\ Monkey(w, res)
       /\ payloadLog' = [payloadLog EXCEPT ![w] = Append(@, Ran("monkey", res))]
       /\ UNCHANGED <<serialLog, bootLog, enumLog>>
  \/ Hold(w) /\ UNCHANGED logVars

PayloadNext ==
  \/ \E w \in 1..2 : PayloadStep(w)
  \/ Join
  \/ Finish

PayloadSpec == PayloadInit /\ [][PayloadNext]_vars
\* ------------------------------------------------------------ the reservation
\* The loop at 225-228 from the state right after the snapshot of line 224, for
\* every snapshot made of: any of the first MaxBusy ports of the range, all or
\* none of the ports above them, and a device that is no emulator.
BusyPorts == {PORT_FIRST + (i - 1) * PORT_STEP : i \in 1..MaxBusy}

UsbSerial == <<"R58M12ABCDE", 0>>

Snapshots ==
  { {Serial(p) : p \in low \cup high} \cup usb :
      low \in SUBSET BusyPorts,
      high \in {{}, PortRange \ BusyPorts},
      usb \in {{}, {UsbSerial}} }

ReserveInit ==
  /\ pc = "reserve"
  /\ total \in 1..MaxTotal
  /\ cloned = total
  /\ err = "none"
  /\ existing \in Snapshots
  /\ adb = {<<serial, "device">> : serial \in existing}
  /\ reserved_ports = <<>>
  /\ started = 0
  /\ joined = 0
  /\ sem = CONCURRENT_LIMIT
  /\ timeout = BOOT_TIMEOUT
  /\ wpc = NoWorker("idle")
  /\ acquired = NoWorker(FALSE)
  /\ launched = NoWorker(FALSE)
  /\ elapsed = NoWorker(0)
  /\ exc = NoWorker("none")
  /\ released = NoWorker(0)
  /\ serialLog = <<>>
  /\ bootLog = <<>>
  /\ payloadLog = NoWorker(<<>>)
  /\ enumLog = <<>>
  /\ keep = KEEP_EMULATORS
  /\ handled = 0
  /\ retention = NoWorker(NotHandled)

ReserveSpec == ReserveInit /\ [][Reserve]_vars

\* ------------------------------------------------------------ the enumerations
\* A run of up to MaxEnumTotal instances from its start to the end of each
\* worker's discovery wait, with every call of list_adb_devices kept in enumLog:
\* who called (0 for main(), w for worker w), whether running adb worked, what
\* adb would have listed, and what the call returned.

Enumerated(who, ok) ==
  [who |-> who, ok |-> ok, live |-> list_adb_devices(TRUE), got |-> list_adb_devices(ok)]

EnumInit ==
  /\ Init
  /\ total <= MaxEnumTotal

EnumStep(w) ==
  \/ Acquire(w)
  \/ \E ok \in BOOLEAN : Launch(w, ok)
  \/ \E ok \in BOOLEAN, lag \in Lags :
       /\ PollSerial(w, ok, lag)
       /\ enumLog' = Append(enumLog, Enumerated(w, ok))
       /\ UNCHANGED <<serialLog, bootLog, payloadLog>>
  \/ TimeoutSerial(w) /\ UNCHANGED logVars

EnumNext ==
  \/ \E ok \in BOOLEAN : Clone(ok)
  \/ \E ok \in BOOLEAN :
       /\ Snapshot(ok)
       /\ enumLog' = Append(enumLog, Enumerated(0, ok))
       /\ UNCHANGED <<serialLog, bootLog, payloadLog>>
  \/ Reserve
  \/ StartWorker
  \/ \E w \in Workers : EnumStep(w)
  \/ \E w \in Workers : Appear(w)

EnumSpec == EnumInit /\ [][EnumNext]_vars

\* ------------------------------------------------------------ the retention policy
\* main() from the end of its join loop, for every combination of outcomes of
\* the workers of the run and for both settings of the retention policy.
Outcomes == {"none", "LaunchError", "DiscoveryTimeout", "BootTimeout", "PayloadError"}

RetentionInit ==
  /\ pc = "finish"
  /\ total \in 1..MaxTotal
  /\ cloned = total
  /\ err = "none"
  /\ existing = {}
  /\ reserved_ports = [i \in 1..total |-> PORT_FIRST + (i - 1) * PORT_STEP]
  /\ exc \in [Workers -> Outcomes]
  /\ \A w \in Workers : w > total => exc[w] = "none"
  /\ adb = Live({reserved_ports[w] : w \in {v \in 1..total :
                     exc[v] \notin {"LaunchError", "DiscoveryTimeout"}}})
  /\ started = total
  /\ joined = total
  /\ sem = CONCURRENT_LIMIT
  /\ timeout = BOOT_TIMEOUT
  /\ wpc = [w \in Workers |-> IF w <= total THEN "done" ELSE "idle"]
  /\ acquired = [w \in Workers |-> w <= total]
  /\ launched = [w \in Workers |-> w <= total /\ exc[w] # "LaunchError"]
  /\ elapsed = NoWorker(0)
  /\ released = [w \in Workers |-> IF w <= total THEN 1 ELSE 0]
  /\ serialLog = <<>>
  /\ bootLog = <<>>
  /\ payloadLog = NoWorker(<<>>)
  /\ enumLog = <<>>
  /\ keep \in BOOLEAN
  /\ handled = 0
  /\ retention = NoWorker(NotHandled)

RetentionNext ==
  \/ Finish
  \/ \E running \in BOOLEAN, res \in CommandResults : Terminate(running, res)

RetentionSpec == RetentionInit /\ [][RetentionNext]_vars

\* ------------------------------------------------------------ run states
\* A worker is terminal once its thread has ended: Succeeded when the try block ran
\* to its end, Failed when line 199 caught an exception.
Terminal(w) == wpc[w] = "done"
Succeeded(w) == wpc[w] = "done" /\ exc[w] = "none"
Failed(w) == wpc[w] = "done" /\ exc[w] # "none"

\* The run state of a worker, read off the place its thread is at: Pending until
\* it has a permit, Launching in start_emulator_detached, AwaitingEndpoint in
\* wait_for_serial, AwaitingReady in wait_for_boot_complete, Running in
\* open_cpi_and_install.
RunState(w) ==
  CASE wpc[w] \in {"idle", "acquire"} -> "Pending"
    [] wpc[w] = "launch" -> "Launching"
    [] wpc[w] = "discover" -> "AwaitingEndpoint"
    [] wpc[w] = "boot" -> "AwaitingReady"
    [] wpc[w] \in {"open", "install", "monkey", "hold"} -> "Running"
    [] wpc[w] = "done" /\ exc[w] = "none" -> "Succeeded"
    [] wpc[w] = "done" /\ exc[w] # "none" -> "Failed"

\* Workers whose emulator process was launched and that are not terminal yet.
Active == {w \in Workers : launched[w] /\ ~Terminal(w)}

\* The permits worker w holds: those it acquired less those it released.
Held(w) == (IF acquired[w] THEN 1 ELSE 0) - released[w]

\* Workers whose emulator process is running: Popen started it at line 129 and
\* main() has not asked it to stop.  Nothing in instance_worker stops it, and an
\* emulator does not exit by itself.
RunningProcesses ==
  {w \in Workers : launched[w] /\ ~retention[w].asked /\ ~retention[w].signal}

\* Workers holding a permit.
Holders == {w \in Workers : acquired[w] /\ ~Terminal(w)}

\* ------------------------------------------------------------ claims

\* C1: in every reachable state the number of workers that have launched their
\* instance process and are not yet Succeeded or Failed is at most the
\* concurrency limit.
C1_ActiveWithinLimit == Cardinality(Active) <= CONCURRENT_LIMIT

\* As many workers active as the limit allows while another waits for a permit.
C1_Witness ==
  /\ Cardinality(Active) = CONCURRENT_LIMIT
  /\ \E w \in Workers : wpc[w] = "acquire"

\* C5: a worker has released exactly once when it has exited after acquiring, and
\* not at all before that or without acquiring; the free permits are the limit
\* less the permits held, never more than the limit, and all of them once every
\* worker of the run is terminal.
C5_ReleasedExactlyOnce ==
  /\ \A w \in Workers :
       released[w] = IF Terminal(w) /\ acquired[w] THEN 1 ELSE 0
  /\ sem = CONCURRENT_LIMIT - Cardinality(Holders)
  /\ sem <= CONCURRENT_LIMIT
  /\ (started = total /\ \A w \in 1..total : Terminal(w)) => sem = CONCURRENT_LIMIT

\* Every worker of a full run has exited, one Succeeded and one Failed, and all
\* permits are back.
C5_Witness ==
  /\ total = MaxTotal
  /\ \A w \in 1..total : Terminal(w) /\ released[w] = 1
  /\ \E w \in 1..total : Succeeded(w)
  /\ \E w \in 1..total : Failed(w)
  /\ sem = CONCURRENT_LIMIT

\* C9: whenever any worker has launched its instance process, fresh_clone_avd has
\* run for every planned instance and a port is reserved for every planned
\* instance.
C9_PreparedBeforeLaunch ==
  \A w \in Workers :
    (wpc[w] # "idle" \/ launched[w]) => cloned = total /\ Len(reserved_ports) = total

\* The first launch of a run of MaxTotal instances, main() still starting threads.
C9_Witness ==
  /\ total = MaxTotal
  /\ pc = "start"
  /\ launched[1]


\* C2: once main() has reserved its ports, the plan it zips has exactly `total`
\* entries, their identities are pairwise distinct, their ports are pairwise
\* distinct, and no port's serial emulator-<port> is in the snapshot `existing`
\* the ports were reserved against.
C2_PlanDistinctAndFree ==
  pc \in {"start", "join", "finish", "done"} =>
    /\ Len(Plan) = total
    /\ \A i, j \in 1..Len(Plan) :
         i # j => Plan[i][1] # Plan[j][1] /\ Plan[i][2] # Plan[j][2]
    /\ \A i \in 1..Len(Plan) : Serial(Plan[i][2]) \notin existing

\* A full plan reserved around live emulators: the first port of the range is
\* taken, and the ports reserved are not consecutive.
C2_Witness ==
  /\ pc = "start"
  /\ total = MaxTotal
  /\ Serial(PORT_FIRST) \in existing
  /\ reserved_ports[2] # reserved_ports[1] + PORT_STEP

\* Every port of the range is live or already reserved in this run.
RangeOccupied ==
  \A p \in PortRange : Serial(p) \in existing \cup ReservedSerials(reserved_ports)

\* C3: when the snapshot and the ports reserved so far occupy the whole range, the
\* reservation of the next port ends main() with RuntimeError; and whenever main()
\* has ended that way, no worker thread was started and no emulator launched.
C3_ExhaustedFailsBeforeStart ==
  /\ [][(pc = "reserve" /\ RangeOccupied) => (pc' = "error" /\ err' = "RuntimeError")]_vars
  /\ [](err = "RuntimeError" =>
          /\ pc = "error"
          /\ RangeOccupied
          /\ started = 0
          /\ \A w \in Workers : wpc[w] = "idle" /\ ~launched[w])

\* The range ran out on the second plan, after one port had been reserved.
C3_Witness ==
  /\ err = "RuntimeError"
  /\ Len(reserved_ports) = 1
  /\ total > 1


\* C4: a step in which one worker fails changes no other worker's position or
\* outcome; a worker whose two readiness phases both returned (wpc = "open")
\* goes on to Succeeded, unless one of its own payload commands raises, whatever
\* happened to its siblings; and main(), once it starts threads, reaches its end,
\* which it does only with every thread joined.
C4_FailureStaysLocal ==
  /\ [][\A w \in Workers :
          exc'[w] # exc[w] =>
            \A v \in Workers \ {w} : wpc'[v] = wpc[v] /\ exc'[v] = exc[v]]_vars
  /\ \A w \in Workers :
       (wpc[w] = "open") ~> (Succeeded(w) \/ exc[w] = "PayloadError")
  /\ (pc = "start") ~> (pc = "done" /\ joined = total)

\* The run is over: one worker timed out waiting for its serial, one timed out
\* waiting for the boot, and their sibling Succeeded.
C4_Witness ==
  /\ pc = "done"
  /\ \E w \in 1..total : exc[w] = "DiscoveryTimeout"
  /\ \E w \in 1..total : exc[w] = "BootTimeout"
  /\ \E w \in 1..total : Succeeded(w)

\* C10: under fair scheduling every started worker leaves the wait for a permit
\* and reaches a terminal state, main() reaches its end once it starts threads,
\* and it is past its join loop only when every worker of the run is terminal.
C10_AllTerminate ==
  /\ \A w \in Workers : (wpc[w] = "acquire") ~> (wpc[w] # "acquire")
  /\ \A w \in Workers : (wpc[w] # "idle") ~> Terminal(w)
  /\ (pc = "start") ~> (pc = "done")
  /\ [](pc \in {"finish", "done"} => \A w \in 1..total : Terminal(w))

\* main() is done after a full run in which a boot wait ran into its timeout and
\* every worker, more of them than there are permits, ended.
C10_Witness ==
  /\ pc = "done"
  /\ total = MaxTotal
  /\ \A w \in 1..total : Terminal(w)
  /\ \E w \in 1..total : exc[w] = "BootTimeout"
  /\ MaxTotal > CONCURRENT_LIMIT


\* ------------------------------------------------------------ claims on one wait
Target == Serial(WPort(1))

\* What `adb devices` lists as a device right now, read off the listing itself.
ListedNow == {x[1] : x \in {y \in adb : y[2] = "device"}}

Stdout0 == <<"0", "\n">>
Stdout1 == <<"1", "\n">>

\* [error, error, "0", "1"]
ErrErr01 == <<RaisedResult, RaisedResult, Returned(0, Stdout0), Returned(0, Stdout1)>>

IsBootAnswer(a) == ~a.raised /\ a.stdout \in {Stdout1, <<"1">>}

\* C6: with the answers [error, error, "0", "1"] the boot wait has returned
\* success after the fourth poll; after each of the first three it has not
\* returned, and nothing but its own timeout has ended it; in general it has
\* returned success exactly when its last answer is a "1" and none before it
\* was, and the only exception that ever leaves it is its own timeout.
C6_BootErrorsAreNotFinal ==
  /\ bootLog = ErrErr01 => wpc[1] = "open" /\ exc[1] = "none"
  /\ \A n \in 1..3 :
       bootLog = SubSeq(ErrErr01, 1, n) =>
         wpc[1] \in {"boot", "done"} /\ exc[1] \in {"none", "BootTimeout"}
  /\ \A i \in 1..Len(bootLog) :
       IsBootAnswer(bootLog[i]) <=> (i = Len(bootLog) /\ wpc[1] = "open")
  /\ bootLog # <<>> => exc[1] \in {"none", "BootTimeout"}

\* The wait returned on the fourth poll of [error, error, "0", "1"].
C6_Witness ==
  /\ bootLog = ErrErr01
  /\ wpc[1] = "open"

\* C7: a poll of the discovery wait ends the wait with success exactly when the
\* snapshot it has just taken holds the target serial; that snapshot is the
\* listing of this very moment (or empty, when adb could not be run); and as long
\* as the wait is polling, no snapshot it took held the target.
C7_DiscoveryOnFreshSnapshot ==
  /\ [][serialLog' # serialLog =>
          /\ serialLog' = Append(serialLog, serialLog'[Len(serialLog')])
          /\ serialLog'[Len(serialLog')] \in {ListedNow, {}}
          /\ (wpc'[1] = "boot") <=> (Target \in serialLog'[Len(serialLog')])
          /\ (wpc'[1] = "discover") <=> (Target \notin serialLog'[Len(serialLog')])]_vars
  /\ [][(wpc[1] = "discover" /\ wpc'[1] = "boot") => serialLog' # serialLog]_vars
  /\ [](\A i \in 1..Len(serialLog) :
          Target \in serialLog[i] => (i = Len(serialLog) /\ wpc[1] # "discover"))

\* The target was absent from the first two snapshots, came up, and the third
\* poll returned success.
C7_Witness ==
  /\ Len(serialLog) = 3
  /\ Target \notin serialLog[1] /\ Target \notin serialLog[2]
  /\ serialLog[1] # {}
  /\ Target \in serialLog[3]
  /\ wpc[1] = "boot"

\* The k-th poll of a phase starts no earlier than (k - 1) sleeps after its start.
PollsWithin(log) == log # <<>> => (Len(log) - 1) * POLL_SLEEP < timeout

\* C8: a poll is started only while the elapsed time is below the timeout; once
\* it has reached the timeout the only step of the phase is its own timeout error;
\* both waits come to an end; and a worker that ended without running its payload
\* did so with DiscoveryTimeout, having seen no snapshot with its serial, or with
\* BootTimeout, having seen its serial and no "1".
C8_TimeoutEndsPhase ==
  /\ <>(wpc[1] \in {"open", "done"})
  /\ [][(serialLog' # serialLog \/ bootLog' # bootLog) => elapsed[1] < timeout]_vars
  /\ [][(wpc[1] = "discover" /\ elapsed[1] >= timeout /\ wpc'[1] # wpc[1]) =>
          (wpc'[1] = "done" /\ exc'[1] = "DiscoveryTimeout")]_vars
  /\ [][(wpc[1] = "boot" /\ elapsed[1] >= timeout /\ wpc'[1] # wpc[1]) =>
          (wpc'[1] = "done" /\ exc'[1] = "BootTimeout")]_vars
  /\ [](PollsWithin(serialLog) /\ PollsWithin(bootLog))
  /\ [](wpc[1] = "done" =>
          \/ /\ exc[1] = "DiscoveryTimeout"
             /\ \A i \in 1..Len(serialLog) : Target \notin serialLog[i]
             /\ bootLog = <<>>
          \/ /\ exc[1] = "BootTimeout"
             /\ serialLog # <<>> /\ Target \in serialLog[Len(serialLog)]
             /\ \A i \in 1..Len(bootLog) : ~IsBootAnswer(bootLog[i]))

\* A boot wait with the longest timeout polled four times without a "1" and ended
\* with its timeout error.
C8_Witness ==
  /\ timeout = MaxTimeout
  /\ wpc[1] = "done"
  /\ exc[1] = "BootTimeout"
  /\ Len(bootLog) = (MaxTimeout + POLL_SLEEP - 1) \div POLL_SLEEP


\* ------------------------------------------------------------ claims on the run
\* main() returned normally: the interpreter exits with status 0.  An exception
\* that leaves main() (pc = "error") makes it exit with a non-zero status.
ExitSuccess == pc = "done" /\ err = "none"

\* C11: once main() has started a worker it never ends with an error: the step in
\* which a worker fails changes nothing of main()'s state, main() reaches its
\* end, and it has ended with a success status whatever the workers' outcomes.
C11_WorkerFailuresStayOutOfMain ==
  /\ [](started > 0 => pc \in {"start", "join", "finish", "done"} /\ err = "none")
  /\ [][(\E w \in Workers : exc'[w] # exc[w]) => UNCHANGED mainVars]_vars
  /\ (started > 0) ~> ExitSuccess
  /\ [](pc = "done" => ExitSuccess)

\* main() ended with success after a full run in which every worker failed, one
\* at its launch, one in a readiness wait and one in its payload.
C11_Witness ==
  /\ ExitSuccess
  /\ total = MaxTotal
  /\ \A w \in 1..total : Failed(w)
  /\ \E w \in 1..total : exc[w] = "LaunchError"
  /\ \E w \in 1..total : exc[w] \in {"DiscoveryTimeout", "BootTimeout"}
  /\ \E w \in 1..total : exc[w] = "PayloadError"

\* Every endpoint of the run comes up in time: no launch fails, no readiness
\* wait runs into its timeout, and every payload command can be executed.  These
\* are the only ways a worker comes to line 199.
AllBecomeReady ==
  [](\A w \in Workers :
       exc[w] \notin {"LaunchError", "DiscoveryTimeout", "BootTimeout", "PayloadError"})

\* C12: in a run of three instances under the limit of two, if every endpoint
\* becomes discoverable and boot-complete within its timeouts then, once main()
\* starts its threads, all three workers are eventually Succeeded and main()
\* ends; at no time are more than two workers
\* between launch and terminal; and main() is past its join loop only with all
\* three threads joined and terminal.
C12_ThreeUnderLimitTwo ==
  (total = 3 /\ CONCURRENT_LIMIT = 2) =>
    /\ AllBecomeReady =>
          ((pc = "start") ~> (pc = "done" /\ \A w \in 1..3 : Succeeded(w)))
    /\ [](Cardinality(Active) <= 2)
    /\ [](pc \in {"finish", "done"} => joined = 3 /\ \A w \in 1..3 : Terminal(w))

\* The run of three is over with all three Succeeded and all permits back.
C12_Witness ==
  /\ total = 3
  /\ pc = "done"
  /\ joined = 3
  /\ \A w \in 1..3 : Succeeded(w)
  /\ sem = CONCURRENT_LIMIT

\* C14: a failure of fresh_clone_avd for any name ends main() there and then:
\* whenever main() has failed in templating, no snapshot was taken, no port is
\* reserved, no thread was started and no emulator launched, however many clones
\* had been made before; and nothing happens after it.
C14_TemplateFailureIsFatal ==
  /\ [][(pc = "clone" /\ pc' # "clone" /\ cloned' # total) =>
          (pc' = "error" /\ err' = "CloneError")]_vars
  /\ [](err = "CloneError" =>
          /\ pc = "error"
          /\ cloned < total
          /\ existing = {}
          /\ reserved_ports = <<>>
          /\ started = 0
          /\ \A w \in Workers : wpc[w] = "idle" /\ ~acquired[w] /\ ~launched[w])
  /\ [][err = "CloneError" => FALSE]_vars

\* Templating failed for the last of MaxTotal names, after the clones before it
\* had been made.
C14_Witness ==
  /\ err = "CloneError"
  /\ total = MaxTotal
  /\ cloned = MaxTotal - 1

\* The run state that follows s when the stage at s goes well.
Forward(s) ==
  CASE s = "Pending" -> "Launching"
    [] s = "Launching" -> "AwaitingEndpoint"
    [] s = "AwaitingEndpoint" -> "AwaitingReady"
    [] s = "AwaitingReady" -> "Running"
    [] s = "Running" -> "Succeeded"
    [] OTHER -> s

\* C16: a step changes a worker's run state only to the next state of Pending,
\* Launching, AwaitingEndpoint, AwaitingReady, Running, Succeeded, or to Failed
\* from a state that is not terminal; Succeeded and Failed are never left and
\* the failure recorded never changes; the boot wait is entered only from the
\* discovery wait and the payload only from the boot wait.
C16_RunStateMovesForward ==
  [][\A w \in Workers :
       /\ RunState(w)' # RunState(w) =>
            \/ RunState(w)' = Forward(RunState(w))
            \/ RunState(w)' = "Failed" /\ RunState(w) \notin {"Succeeded", "Failed"}
       /\ Terminal(w) => wpc'[w] = wpc[w] /\ exc'[w] = exc[w]
       /\ (wpc'[w] = "boot" /\ wpc[w] # "boot") => wpc[w] = "discover"
       /\ (wpc'[w] = "open" /\ wpc[w] # "open") => wpc[w] = "boot"
       /\ (exc'[w] \in {"DiscoveryTimeout", "BootTimeout"} /\ exc'[w] # exc[w]) =>
            RunState(w) \in {"AwaitingEndpoint", "AwaitingReady"} /\ wpc'[w] = "done"]_vars

\* One worker went through every state to Succeeded while another Failed in
\* its boot wait and a third in its discovery wait.
C16_Witness ==
  /\ \E w \in Workers : RunState(w) = "Succeeded"
  /\ \E w \in Workers : RunState(w) = "Failed" /\ exc[w] = "BootTimeout"
  /\ \E w \in Workers : RunState(w) = "Failed" /\ exc[w] = "DiscoveryTimeout"

\* C17: a worker that is launching its emulator, polling for its serial or its
\* boot, or driving the payload holds exactly one permit; no worker ever holds
\* more than one or less than none; before its acquire returned and after its
\* thread ended it holds none; and the permits held are exactly those missing
\* from the semaphore, which never goes below zero.
C17_HoldsExactlyOnePermit ==
  /\ \A w \in Workers :
       /\ Held(w) \in {0, 1}
       /\ wpc[w] \in {"launch", "discover", "boot", "open", "install", "monkey", "hold"}
            => Held(w) = 1
       /\ (launched[w] /\ ~Terminal(w)) => Held(w) = 1
       /\ (wpc[w] \in {"idle", "acquire"} \/ Terminal(w)) => Held(w) = 0
  /\ sem >= 0
  /\ Cardinality({w \in Workers : Held(w) = 1}) = CONCURRENT_LIMIT - sem

\* One worker holds its permit in the payload and one in a readiness wait, while
\* a third has ended and holds none.
C17_Witness ==
  /\ \E w \in Workers : wpc[w] = "hold" /\ Held(w) = 1
  /\ \E w \in Workers : wpc[w] = "boot" /\ Held(w) = 1
  /\ \E w \in Workers : Terminal(w) /\ Held(w) = 0
  /\ sem = 0

\* ------------------------------------------------------------ claims on the reservation
\* The even ports of 5554..5682 whose serial emulator-<port> is not in E.
FreePorts(E) == {p \in 5554..5682 : p % 2 = 0 /\ <<"emulator", p>> \notin E}

\* The k-th smallest element of a set of numbers with at least k elements.
KthSmallest(S, k) == CHOOSE p \in S : Cardinality({q \in S : q < p}) = k - 1

\* C18: the k-th port reserved is the k-th smallest free even port of 5554..5682
\* with respect to the snapshot; so every reserved port is even and in range and
\* the list is strictly ascending; the loop reserves a port for each of the
\* `total` plans when that many are free and ends in RuntimeError only when
\* the free ports have run out.
C18_KthSmallestFreePort ==
  /\ \A k \in 1..Len(reserved_ports) :
       /\ k <= total
       /\ Cardinality(FreePorts(existing)) >= k
       /\ reserved_ports[k] = KthSmallest(FreePorts(existing), k)
       /\ reserved_ports[k] % 2 = 0
       /\ reserved_ports[k] >= 5554 /\ reserved_ports[k] <= 5682
       /\ k > 1 => reserved_ports[k - 1] < reserved_ports[k]
  /\ pc = "start" => Len(reserved_ports) = total
  /\ pc = "error" =>
       (Len(reserved_ports) < total /\ Cardinality(FreePorts(existing)) = Len(reserved_ports))

\* Three ports reserved around live emulators: the lowest port and the third
\* are taken, so the ports reserved are the second, the fourth and the fifth.
C18_Witness ==
  /\ pc = "start"
  /\ Len(reserved_ports) = 3
  /\ <<"emulator", 5554>> \in existing
  /\ <<"emulator", 5558>> \in existing
  /\ reserved_ports = <<5556, 5560, 5562>>

\* C19: under KEEP_EMULATORS the emulator processes that workers have launched
\* and that are still running are never more than the concurrency limit.
C19_RunningProcessesWithinLimit ==
  keep => Cardinality(RunningProcesses) <= CONCURRENT_LIMIT

\* ------------------------------------------------------------ claims on the enumerations
\* C20: a call of list_adb_devices in which running adb failed returns the empty
\* set, whatever adb would have listed, and a call that worked returns the
\* listing; the step that makes a failed call raises nothing in main() or in
\* any worker: main() goes on to reserve ports against the empty set, a worker
\* stays in its discovery wait, also when its serial was listed; a worker leaves
\* that wait only on a call that worked and returned its serial, or on the
\* timeout; and after a failed snapshot the ports reserved are the first ports
\* of the range, none counting as occupied, and the range never runs out.
C20_FailedEnumerationIsEmpty ==
  /\ [](\A i \in 1..Len(enumLog) :
          enumLog[i].got = IF enumLog[i].ok THEN enumLog[i].live ELSE {})
  /\ [][(enumLog' # enumLog /\ ~enumLog'[Len(enumLog')].ok) =>
          /\ err' = "none"
          /\ exc' = exc
          /\ enumLog'[Len(enumLog')].who = 0 => (existing' = {} /\ pc' = "reserve")
          /\ \A w \in Workers :
               enumLog'[Len(enumLog')].who = w =>
                 (wpc[w] = "discover" /\ wpc'[w] = "discover")]_vars
  /\ [][\A w \in Workers :
          (wpc[w] = "discover" /\ wpc'[w] # "discover") =>
            \/ /\ wpc'[w] = "boot"
               /\ enumLog' # enumLog
               /\ enumLog'[Len(enumLog')].ok
               /\ enumLog'[Len(enumLog')].who = w
               /\ Serial(WPort(w)) \in enumLog'[Len(enumLog')].got
            \/ /\ wpc'[w] = "done"
               /\ exc'[w] = "DiscoveryTimeout"
               /\ elapsed[w] >= timeout]_vars
  /\ []((enumLog # <<>> /\ ~enumLog[1].ok) =>
          /\ enumLog[1].who = 0
          /\ existing = {}
          /\ err # "RuntimeError"
          /\ \A k \in 1..Len(reserved_ports) : reserved_ports[k] = 5554 + 2 * (k - 1))

\* The snapshot failed while every port of the range was live, so the two ports
\* reserved are the first two of the range; worker 1's first poll failed while
\* its serial was listed, and its second poll found the serial.
C20_Witness ==
  /\ Len(enumLog) >= 3
  /\ ~enumLog[1].ok
  /\ \A p \in PortRange : Serial(p) \in enumLog[1].live
  /\ reserved_ports = <<5554, 5556>>
  /\ \E i \in 2..Len(enumLog) :
       /\ enumLog[i].who = 1
       /\ ~enumLog[i].ok
       /\ Serial(WPort(1)) \in enumLog[i].live
  /\ enumLog[Len(enumLog)].who = 1
  /\ enumLog[Len(enumLog)].ok
  /\ wpc[1] = "boot"

\* ------------------------------------------------------------ claims on the payload
\* C13: once the open-link command has returned and the install command has been
\* run, whatever either reported and also when the install command could not be
\* executed, the worker goes on to the launch command: it is at the launch
\* command or past it, it has not ended without issuing it, and if the launch
\* command returned the worker's end is Succeeded.
C13_NoStepSkipped ==
  \A w \in Workers :
    Len(payloadLog[w]) >= 2 =>
      /\ payloadLog[w][2].cmd = "install"
      /\ wpc[w] \in {"monkey", "hold", "done"}
      /\ wpc[w] = "done" => Len(payloadLog[w]) = 3 /\ payloadLog[w][3].cmd = "monkey"
      /\ (wpc[w] = "done" /\ Len(payloadLog[w]) = 3 /\ ~payloadLog[w][3].res.raised)
           => Succeeded(w)

\* ------------------------------------------------------------ claims on retention
\* The request to terminate worker w's emulator failed: `adb emu kill` could not
\* be executed (run_cmd raised).  An exit code is only what the command reports.
RequestFailed(w) == retention[w].asked /\ retention[w].raised

====
